---- MODULE Spec2Model ----
(***************************************************************************)
(* The m.room.name event of ruma-events (src/room/name.rs): the validated  *)
(* constructor NameEventContent::new, the two TryFromRaw conversions, the  *)
(* derived Serialize of NameEvent, the derived Deserialize of the raw      *)
(* types, and the EventJson holder that defers validation.                 *)
(***************************************************************************)
EXTENDS Integers, Sequences, FiniteSets, TLC

VARIABLES pc, arg, out, event, json, holder

vars == <<pc, arg, out, event, json, holder>>

(***************************************************************************)
(* Bounds and program constants.                                           *)
(***************************************************************************)

\* Longest string, in runs of one repeated character, handed to the constructors.
MaxRuns == 2

\* Largest number of milliseconds a generated timestamp lies after the epoch.
MaxMillis == 2

\* name.rs:95, the upper end of the match arm 1..=255.
MaxNameBytes == 255

\* Nanoseconds per millisecond: SystemTime counts nanoseconds, the wire
\* format (ruma_serde::time::ms_since_unix_epoch) counts milliseconds.
NanosPerMilli == 1000000

(***************************************************************************)
(* Rust values: Option, Result, String.                                    *)
(***************************************************************************)

None == [some |-> FALSE]

Some(v) == [some |-> TRUE, val |-> v]

Ok(v) == [ok |-> TRUE, val |-> v]

Err(kind, msg) == [ok |-> FALSE, kind |-> kind, msg |-> msg]

\* A value no operation has produced yet.
Nil == [nil |-> TRUE]

\* The characters strings are made of: U+0058, U+00E9, U+20AC, U+1D11E.
Chars == {"X", "E_ACUTE", "EURO", "G_CLEF"}

\* Bytes of the UTF-8 encoding of one character.
Utf8Width(ch) ==
    CASE ch = "X" -> 1
      [] ch = "E_ACUTE" -> 2
      [] ch = "EURO" -> 3
      [] ch = "G_CLEF" -> 4

\* Run lengths around the limit for each width: 255 = 85 * 3, 256 = 128 * 2 = 64 * 4.
RunLens == {1, 63, 64, 85, 86, 127, 128, 255, 256}

Runs == [ch : Chars, n : RunLens]

\* A String is a sequence of runs <<ch repeated n times>>; in normal form no
\* two neighbouring runs repeat the same character, so equal strings are
\* equal sequences.
IsString(s) == \A i \in 1..(Len(s) - 1) : s[i].ch # s[i + 1].ch

RECURSIVE SeqsUpTo(_, _)
SeqsUpTo(S, k) ==
    IF k = 0 THEN {<<>>}
    ELSE LET shorter == SeqsUpTo(S, k - 1)
         IN  shorter \cup {Append(s, r) : s \in {t \in shorter : Len(t) = k - 1}, r \in S}

Strings == {s \in SeqsUpTo(Runs, MaxRuns) : IsString(s)}

EmptyString == <<>>

\* String::len: the length in bytes of the UTF-8 encoding.
RECURSIVE ByteLen(_)
ByteLen(s) ==
    IF s = <<>> THEN 0
    ELSE Utf8Width(Head(s).ch) * Head(s).n + ByteLen(Tail(s))

\* s.chars().count(): the length in Unicode scalar values.
RECURSIVE CharCount(_)
CharCount(s) ==
    IF s = <<>> THEN 0 ELSE Head(s).n + CharCount(Tail(s))

(***************************************************************************)
(* NameEventContent: name.rs:43-106.                                       *)
(***************************************************************************)

NameEventContent(name) == [name |-> name]

TooLong == "a room name cannot be more than 255 bytes"

InvalidInput(msg) == Err("InvalidInput", msg)

\* Mutants of NameEventContent::new.
NewCountsChars(name) ==
    IF CharCount(name) = 0 THEN Ok(NameEventContent(None))
    ELSE IF CharCount(name) <= MaxNameBytes THEN Ok(NameEventContent(Some(name)))
    ELSE InvalidInput(TooLong)

NewExclusiveLimit(name) ==
    IF ByteLen(name) = 0 THEN Ok(NameEventContent(None))
    ELSE IF ByteLen(name) < MaxNameBytes THEN Ok(NameEventContent(Some(name)))
    ELSE InvalidInput(TooLong)

NewKeepsEmpty(name) ==
    IF ByteLen(name) <= MaxNameBytes THEN Ok(NameEventContent(Some(name)))
    ELSE InvalidInput(TooLong)

\* NameEventContent::new, name.rs:92-100.
New(name) ==
    IF ByteLen(name) = 0 THEN Ok(NameEventContent(None))
    ELSE IF ByteLen(name) <= MaxNameBytes THEN Ok(NameEventContent(Some(name)))
    ELSE InvalidInput(TooLong)

\* NameEventContent::name, name.rs:103-105.
NameOf(content) == content.name

\* raw::NameEventContent, name.rs:143-149.
RawNameEventContent(name) == [name |-> name]

\* Mutant of the content conversion: the raw name is stored unchecked.
ContentTryFromRawUnchecked(raw) == Ok(NameEventContent(raw.name))

\* impl TryFromRaw for NameEventContent, name.rs:76-81.
ContentTryFromRaw(raw) ==
    IF ~raw.name.some THEN Ok(NameEventContent(None))
    ELSE New(raw.name.val)

(***************************************************************************)
(* Collaborator types: identifiers, SystemTime, UnsignedData.              *)
(***************************************************************************)

\* ASCII text written out: one run holding the whole text.
Lit(text) == <<[ch |-> text, n |-> 1]>>

EventIdTexts == {"$h29iv0s8:example.com"}

RoomIdTexts == {"!n8f893n9:example.com"}

UserIdTexts == {"@carl:example.com"}

\* ruma_identifiers::{EventId, RoomId, UserId}: a validated identifier.
Identifier(kind, text) == [kind |-> kind, text |-> text]

EventIds == {Identifier("event", t) : t \in EventIdTexts}

RoomIds == {Identifier("room", t) : t \in RoomIdTexts}

UserIds == {Identifier("user", t) : t \in UserIdTexts}

\* SystemTime values, in nanoseconds after UNIX_EPOCH: whole milliseconds
\* and instants half a millisecond later.
Instants == {m * NanosPerMilli + f : m \in 0..MaxMillis, f \in {0, NanosPerMilli \div 2}}

\* UnsignedData { age, transaction_id }, every field optional.
UnsignedData(age, txn) == [age |-> age, transaction_id |-> txn]

UnsignedDefault == UnsignedData(None, None)

Unsigneds ==
    {UnsignedDefault, UnsignedData(Some(100), None), UnsignedData(None, Some(Lit("txn1")))}

\* UnsignedData::is_empty
UnsignedIsEmpty(u) == ~u.age.some /\ ~u.transaction_id.some

(***************************************************************************)
(* JSON values (serde_json::Value).                                        *)
(***************************************************************************)

JNull == [t |-> "null"]

JStr(s) == [t |-> "string", s |-> s]

JNum(n) == [t |-> "number", n |-> n]

JObj(fields) == [t |-> "object", o |-> fields]

NoKeys == [k \in {} |-> JNull]

\* A key written only when `present`.
Key(present, k, v) == IF present THEN k :> v ELSE NoKeys

HasKey(j, k) == j.t = "object" /\ k \in DOMAIN j.o

(***************************************************************************)
(* Serialize: the derives of name.rs:11-48.                                *)
(***************************************************************************)

\* #[derive(Serialize)] struct NameEventContent, name.rs:44-48.
SerializeContent(c) ==
    JObj("name" :> (IF c.name.some THEN JStr(c.name.val) ELSE JNull))

SerializeId(id) == JStr(Lit(id.text))

\* ruma_serde::time::ms_since_unix_epoch::serialize, name.rs:21.
SerializeTime(t) == JNum(t \div NanosPerMilli)

SerializeUnsigned(u) ==
    JObj(Key(u.age.some, "age", JNum(u.age.val))
         @@ Key(u.transaction_id.some, "transaction_id", JStr(u.transaction_id.val)))

EventTypeTag == Lit("m.room.name")

\* Mutants of the derived Serialize of NameEvent.
SerializeNameEventNoSkip(e) ==
    JObj("type" :> JStr(EventTypeTag)
         @@ "content" :> SerializeContent(e.content)
         @@ "event_id" :> SerializeId(e.event_id)
         @@ "origin_server_ts" :> SerializeTime(e.origin_server_ts)
         @@ "prev_content" :> (IF e.prev_content.some
                                THEN SerializeContent(e.prev_content.val) ELSE JNull)
         @@ "room_id" :> (IF e.room_id.some THEN SerializeId(e.room_id.val) ELSE JNull)
         @@ "sender" :> SerializeId(e.sender)
         @@ "state_key" :> JStr(e.state_key)
         @@ "unsigned" :> SerializeUnsigned(e.unsigned))

SerializeNameEventDropsRoom(e) ==
    JObj("type" :> JStr(EventTypeTag)
         @@ "content" :> SerializeContent(e.content)
         @@ "event_id" :> SerializeId(e.event_id)
         @@ "origin_server_ts" :> SerializeTime(e.origin_server_ts)
         @@ Key(e.prev_content.some, "prev_content", SerializeContent(e.prev_content.val))
         @@ "sender" :> SerializeId(e.sender)
         @@ "state_key" :> JStr(e.state_key)
         @@ Key(~UnsignedIsEmpty(e.unsigned), "unsigned", SerializeUnsigned(e.unsigned)))

\* #[derive(Serialize)] #[serde(rename = "m.room.name", tag = "type")]
\* struct NameEvent, name.rs:11-41.
SerializeNameEvent(e) ==
    JObj("type" :> JStr(EventTypeTag)
         @@ "content" :> SerializeContent(e.content)
         @@ "event_id" :> SerializeId(e.event_id)
         @@ "origin_server_ts" :> SerializeTime(e.origin_server_ts)
         @@ Key(e.prev_content.some, "prev_content", SerializeContent(e.prev_content.val))
         @@ Key(e.room_id.some, "room_id", SerializeId(e.room_id.val))
         @@ "sender" :> SerializeId(e.sender)
         @@ "state_key" :> JStr(e.state_key)
         @@ Key(~UnsignedIsEmpty(e.unsigned), "unsigned", SerializeUnsigned(e.unsigned)))

(***************************************************************************)
(* NameEvent and raw::NameEvent, and the conversion between them.          *)
(***************************************************************************)

\* struct NameEvent, name.rs:13-41, and raw::NameEvent, name.rs:113-139:
\* the same fields, the raw one holding raw contents.
NameEvent(content, event_id, ts, prev_content, room_id, sender, state_key, unsigned) ==
    [content |-> content, event_id |-> event_id, origin_server_ts |-> ts,
     prev_content |-> prev_content, room_id |-> room_id, sender |-> sender,
     state_key |-> state_key, unsigned |-> unsigned]

\* Mutants of the event conversion.
EventTryFromRawSkipsPrev(raw) ==
    LET content == ContentTryFromRaw(raw.content)
    IN  IF ~content.ok THEN content
        ELSE Ok(NameEvent(content.val, raw.event_id, raw.origin_server_ts,
                          IF raw.prev_content.some
                          THEN Some(NameEventContent(raw.prev_content.val.name)) ELSE None,
                          raw.room_id, raw.sender, raw.state_key, raw.unsigned))

EventTryFromRawDropsRoom(raw) ==
    LET content == ContentTryFromRaw(raw.content)
        prev == IF raw.prev_content.some
                THEN ContentTryFromRaw(raw.prev_content.val) ELSE Nil
    IN  IF ~content.ok THEN content
        ELSE IF raw.prev_content.some /\ ~prev.ok THEN prev
        ELSE Ok(NameEvent(content.val, raw.event_id, raw.origin_server_ts,
                          IF raw.prev_content.some THEN Some(prev.val) ELSE None,
                          None, raw.sender, raw.state_key, raw.unsigned))

\* impl TryFromRaw for NameEvent, name.rs:54-68.
EventTryFromRaw(raw) ==
    LET content == ContentTryFromRaw(raw.content)
        prev == IF raw.prev_content.some
                THEN ContentTryFromRaw(raw.prev_content.val) ELSE Nil
    IN  IF ~content.ok THEN content
        ELSE IF raw.prev_content.some /\ ~prev.ok THEN prev
        ELSE Ok(NameEvent(content.val, raw.event_id, raw.origin_server_ts,
                          IF raw.prev_content.some THEN Some(prev.val) ELSE None,
                          raw.room_id, raw.sender, raw.state_key, raw.unsigned))

(***************************************************************************)
(* Deserialize: the derives of name.rs:112-149.                            *)
(***************************************************************************)

Structural(msg) == Err("Structural", msg)

\* Mutants of the name field's deserializer.
DeserializeNameChecksLength(obj) ==
    IF "name" \notin DOMAIN obj THEN Ok(None)
    ELSE IF obj["name"].t = "null" THEN Ok(None)
    ELSE IF obj["name"].t # "string" THEN Structural("invalid type for name")
    ELSE IF obj["name"].s = EmptyString THEN Ok(None)
    ELSE IF ByteLen(obj["name"].s) > MaxNameBytes THEN InvalidInput(TooLong)
    ELSE Ok(Some(obj["name"].s))

DeserializeNameRejectsNull(obj) ==
    IF "name" \notin DOMAIN obj THEN Ok(None)
    ELSE IF obj["name"].t # "string" THEN Structural("invalid type for name")
    ELSE IF obj["name"].s = EmptyString THEN Ok(None)
    ELSE Ok(Some(obj["name"].s))

\* #[serde(default, deserialize_with = "ruma_serde::empty_string_as_none")]
\* name: Option<String>, name.rs:145-148.
DeserializeName(obj) ==
    IF "name" \notin DOMAIN obj THEN Ok(None)
    ELSE IF obj["name"].t = "null" THEN Ok(None)
    ELSE IF obj["name"].t # "string" THEN Structural("invalid type for name")
    ELSE IF obj["name"].s = EmptyString THEN Ok(None)
    ELSE Ok(Some(obj["name"].s))

\* #[derive(Deserialize)] struct raw::NameEventContent, name.rs:142-149.
DeserializeRawContent(j) ==
    IF j.t # "object" THEN Structural("invalid type for content")
    ELSE LET name == DeserializeName(j.o)
         IN  IF name.ok THEN Ok(RawNameEventContent(name.val)) ELSE name

\* EventId / RoomId / UserId deserialization: a string that parses as the identifier.
DeserializeId(kind, texts, j) ==
    IF j.t = "string" /\ \E x \in texts : j.s = Lit(x)
    THEN Ok(Identifier(kind, (CHOOSE x \in texts : j.s = Lit(x))))
    ELSE Structural("invalid identifier")

\* ruma_serde::time::ms_since_unix_epoch::deserialize, name.rs:121.
DeserializeTime(j) ==
    IF j.t = "number" /\ j.n >= 0 THEN Ok(j.n * NanosPerMilli)
    ELSE Structural("invalid type for origin_server_ts")

DeserializeUnsigned(j) ==
    IF j.t # "object" THEN Structural("invalid type for unsigned")
    ELSE IF "age" \in DOMAIN j.o /\ j.o["age"].t \notin {"number", "null"}
    THEN Structural("invalid type for age")
    ELSE IF "transaction_id" \in DOMAIN j.o /\ j.o["transaction_id"].t \notin {"string", "null"}
    THEN Structural("invalid type for transaction_id")
    ELSE Ok(UnsignedData(
            IF "age" \in DOMAIN j.o /\ j.o["age"].t = "number"
            THEN Some(j.o["age"].n) ELSE None,
            IF "transaction_id" \in DOMAIN j.o /\ j.o["transaction_id"].t = "string"
            THEN Some(j.o["transaction_id"].s) ELSE None))

\* An Option<T> field: an absent key and null are both None.
Absent(obj, k) == k \notin DOMAIN obj \/ obj[k].t = "null"

RequiredKeys == {"content", "event_id", "origin_server_ts", "sender", "state_key"}

\* #[derive(Deserialize)] struct raw::NameEvent, name.rs:112-139.  Keys the
\* struct does not name ("type") are ignored.
DeserializeRawEvent(j) ==
    IF j.t # "object" THEN Structural("invalid type for event")
    ELSE IF ~(RequiredKeys \subseteq DOMAIN j.o) THEN Structural("missing field")
    ELSE LET obj == j.o
             content == DeserializeRawContent(obj["content"])
             event_id == DeserializeId("event", EventIdTexts, obj["event_id"])
             ts == DeserializeTime(obj["origin_server_ts"])
             prev == IF Absent(obj, "prev_content") THEN Ok(None)
                     ELSE LET p == DeserializeRawContent(obj["prev_content"])
                          IN  IF p.ok THEN Ok(Some(p.val)) ELSE p
             room_id == IF Absent(obj, "room_id") THEN Ok(None)
                        ELSE LET r == DeserializeId("room", RoomIdTexts, obj["room_id"])
                             IN  IF r.ok THEN Ok(Some(r.val)) ELSE r
             sender == DeserializeId("user", UserIdTexts, obj["sender"])
             state_key == IF obj["state_key"].t = "string" THEN Ok(obj["state_key"].s)
                          ELSE Structural("invalid type for state_key")
             unsigned == IF "unsigned" \notin DOMAIN obj THEN Ok(UnsignedDefault)
                         ELSE DeserializeUnsigned(obj["unsigned"])
         IN  IF ~content.ok THEN content
             ELSE IF ~event_id.ok THEN event_id
             ELSE IF ~ts.ok THEN ts
             ELSE IF ~prev.ok THEN prev
             ELSE IF ~room_id.ok THEN room_id
             ELSE IF ~sender.ok THEN sender
             ELSE IF ~state_key.ok THEN state_key
             ELSE IF ~unsigned.ok THEN unsigned
             ELSE Ok(NameEvent(content.val, event_id.val, ts.val, prev.val,
                               room_id.val, sender.val, state_key.val, unsigned.val))

(***************************************************************************)
(* EventJson<T>: the holder that defers validation.                        *)
(***************************************************************************)

\* The structural decode into the holder: the JSON is kept, with the raw
\* value it parses to; a structural error yields no holder.
EventJsonDecode(kind, j) ==
    LET raw == IF kind = "event" THEN DeserializeRawEvent(j) ELSE DeserializeRawContent(j)
    IN  IF raw.ok THEN Ok([kind |-> kind, json |-> j, raw |-> raw.val]) ELSE raw

\* EventJson::deserialize: the raw value is validated.
EventJsonDeserialize(h) ==
    IF h.kind = "event" THEN EventTryFromRaw(h.raw) ELSE ContentTryFromRaw(h.raw)

\* EventJson::json / into_json: the JSON the holder was decoded from.
EventJsonGetRaw(h) == h.json

(***************************************************************************)
(* Inputs.                                                                 *)
(***************************************************************************)

\* Names carried by events: empty, a single character, 85 characters (255
\* bytes when each takes three) and 256 characters.
EventStrings == {s \in Strings : Len(s) = 0 \/ (Len(s) = 1 /\ s[1].n \in {1, 85, 256})}

RawContents(names) == {RawNameEventContent(n) : n \in {None} \cup {Some(s) : s \in names}}

\* Contents a caller outside the crate can hold: the name field is
\* pub(crate), so each comes out of NameEventContent::new.
BuiltContents == {New(s).val : s \in {x \in EventStrings : New(x).ok}}

OptionOf(S) == {None} \cup {Some(x) : x \in S}

StateKeys == {EmptyString, Lit("topic")}

RawEvents ==
    {NameEvent(c, e, ts, p, r, s, k, u) :
        c \in RawContents(EventStrings), e \in EventIds, ts \in Instants,
        p \in OptionOf(RawContents(EventStrings)), r \in OptionOf(RoomIds),
        s \in UserIds, k \in StateKeys, u \in Unsigneds}

BuiltEvents ==
    {NameEvent(c, e, ts, p, r, s, k, u) :
        c \in BuiltContents, e \in EventIds, ts \in Instants,
        p \in OptionOf(BuiltContents), r \in OptionOf(RoomIds),
        s \in UserIds, k \in StateKeys, u \in Unsigneds}

\* Content objects as they arrive: the name key absent, null, a string, or
\* of the wrong type; and a content that is not an object.
ContentJsons(names) ==
    {JObj(NoKeys), JObj("name" :> JNull), JObj("name" :> JNum(5)), JNum(5)}
        \cup {JObj("name" :> JStr(s)) : s \in names}

\* Event objects as they arrive: the optional keys absent, null or set, and
\* possibly a required key missing.
WireEvents ==
    {JObj([k \in (DOMAIN f) \ drop |-> f[k]]) :
        f \in {("type" :> JStr(EventTypeTag)
                @@ "content" :> c
                @@ "event_id" :> JStr(Lit("$h29iv0s8:example.com"))
                @@ "origin_server_ts" :> JNum(1)
                @@ "sender" :> JStr(Lit("@carl:example.com"))
                @@ "state_key" :> JStr(EmptyString)
                @@ p @@ r @@ u) :
                  c \in ContentJsons(EventStrings),
                  p \in {NoKeys} \cup {"prev_content" :> x :
                                        x \in {JNull} \cup ContentJsons(EventStrings)},
                  r \in {NoKeys, "room_id" :> JNull,
                         "room_id" :> JStr(Lit("!n8f893n9:example.com"))},
                  u \in {NoKeys, "unsigned" :> JObj(NoKeys),
                         "unsigned" :> JObj("age" :> JNum(100))}},
        drop \in {{}, {"sender"}, {"type"}}}

(***************************************************************************)
(* State machine: each action is one call a user of the crate makes.  pc   *)
(* names the last call, arg its input, out its Result; event, json and     *)
(* holder carry a value through serialize, decode and deserialize.         *)
(***************************************************************************)

Init ==
    /\ pc = "idle"
    /\ arg = Nil
    /\ out = Nil
    /\ event = Nil
    /\ json = Nil
    /\ holder = Nil

\* NameEventContent::new(s)
CallNew ==
    /\ pc = "idle"
    /\ \E s \in Strings :
        /\ arg' = s
        /\ out' = New(s)
    /\ pc' = "new"
    /\ UNCHANGED <<event, json, holder>>

\* NameEventContent::try_from_raw(raw)
CallContentTryFromRaw ==
    /\ pc = "idle"
    /\ \E raw \in RawContents(Strings) :
        /\ arg' = raw
        /\ out' = ContentTryFromRaw(raw)
    /\ pc' = "content_try_from_raw"
    /\ UNCHANGED <<event, json, holder>>

\* NameEvent::try_from_raw(raw)
CallEventTryFromRaw ==
    /\ pc = "idle"
    /\ \E raw \in RawEvents :
        /\ arg' = raw
        /\ out' = EventTryFromRaw(raw)
    /\ pc' = "event_try_from_raw"
    /\ UNCHANGED <<event, json, holder>>

\* A caller assembles a NameEvent (all its fields are pub) from contents
\* it got from NameEventContent::new.
BuildEvent ==
    /\ pc = "idle"
    /\ event' \in BuiltEvents
    /\ pc' = "built"
    /\ UNCHANGED <<arg, out, json, holder>>

\* serde_json::to_value(&event)
Serialize ==
    /\ pc = "built"
    /\ json' = SerializeNameEvent(event)
    /\ pc' = "serialized"
    /\ UNCHANGED <<arg, out, event, holder>>

\* The transport hands over the JSON of an event.
ReceiveEvent ==
    /\ pc = "idle"
    /\ json' \in WireEvents
    /\ pc' = "received_event"
    /\ UNCHANGED <<arg, out, event, holder>>

\* The transport hands over the JSON of a bare content.
ReceiveContent ==
    /\ pc = "idle"
    /\ json' \in ContentJsons(Strings)
    /\ pc' = "received_content"
    /\ UNCHANGED <<arg, out, event, holder>>

\* serde_json::from_value::<EventJson<NameEvent>>(json)
DecodeEvent ==
    /\ pc \in {"serialized", "received_event"}
    /\ holder' = EventJsonDecode("event", json)
    /\ pc' = "decoded_event"
    /\ UNCHANGED <<arg, out, event, json>>

\* serde_json::from_value::<EventJson<NameEventContent>>(json)
DecodeContent ==
    /\ pc = "received_content"
    /\ holder' = EventJsonDecode("content", json)
    /\ pc' = "decoded_content"
    /\ UNCHANGED <<arg, out, event, json>>

\* holder.deserialize()
Deserialize ==
    /\ pc \in {"decoded_event", "decoded_content"}
    /\ holder.ok
    /\ out' = EventJsonDeserialize(holder.val)
    /\ pc' = IF pc = "decoded_event" THEN "deserialized_event" ELSE "deserialized_content"
    /\ UNCHANGED <<arg, event, json, holder>>

\* The call chain ends and its values are dropped.
Return ==
    /\ pc # "idle"
    /\ pc' = "idle"
    /\ arg' = Nil
    /\ out' = Nil
    /\ event' = Nil
    /\ json' = Nil
    /\ holder' = Nil

Next ==
    \/ CallNew
    \/ CallContentTryFromRaw
    \/ CallEventTryFromRaw
    \/ BuildEvent
    \/ Serialize
    \/ ReceiveEvent
    \/ ReceiveContent
    \/ DecodeEvent
    \/ DecodeContent
    \/ Deserialize
    \/ Return

Spec == Init /\ [][Next]_vars

(***************************************************************************)
(* Properties.                                                             *)
(***************************************************************************)

\* The name invariant: no name, or a name of 1 to 255 bytes.
ValidContent(c) ==
    ~c.name.some \/ (1 <= ByteLen(c.name.val) /\ ByteLen(c.name.val) <= MaxNameBytes)

\* A content object whose name key is absent, null or the empty string.
NameFolds(c) ==
    /\ c.t = "object"
    /\ \/ "name" \notin DOMAIN c.o
       \/ c.o["name"] = JNull
       \/ c.o["name"] = JStr(EmptyString)

\* A content object whose name is a string of more than 255 bytes.
NameTooLong(c) ==
    /\ c.t = "object"
    /\ "name" \in DOMAIN c.o
    /\ c.o["name"].t = "string"
    /\ ByteLen(c.o["name"].s) > MaxNameBytes

\* A content object of the shape the raw content parses: the name key
\* absent, null or a string.
ContentShape(c) ==
    /\ c.t = "object"
    /\ "name" \in DOMAIN c.o => c.o["name"].t \in {"null", "string"}

\* A content object that parses and validates.
ContentAccepted(c) == ContentShape(c) /\ ~NameTooLong(c)

\* An event object of the required shape, whatever its names are.
EventShape(j) ==
    /\ j.t = "object"
    /\ RequiredKeys \subseteq DOMAIN j.o
    /\ ContentShape(j.o["content"])
    /\ Absent(j.o, "prev_content") \/ ContentShape(j.o["prev_content"])

PrevAccepted(j) == Absent(j.o, "prev_content") \/ ContentAccepted(j.o["prev_content"])

\* The holder of a bare content, or of an event, has been decoded.
OfContent == pc \in {"decoded_content", "deserialized_content"}

OfEvent == pc \in {"decoded_event", "deserialized_event"}

Decoding == OfContent \/ OfEvent

\* deserialize() has returned.
Deserialized == pc \in {"deserialized_event", "deserialized_content"}

\* C1: NameEventContent::new(s) of a string of 1 to 255 bytes returns Ok, and
\* name() of the result is Some(s), s unchanged.
C1_NewAcceptsUpTo255Bytes ==
    (pc = "new" /\ 1 <= ByteLen(arg) /\ ByteLen(arg) <= MaxNameBytes)
        => (out.ok /\ NameOf(out.val) = Some(arg))

C1_Witness ==
    /\ pc = "new"
    /\ ByteLen(arg) = MaxNameBytes
    /\ CharCount(arg) < MaxNameBytes
    /\ out.ok
    /\ NameOf(out.val) = Some(arg)

\* C2: NameEventContent::new(s) of a string of more than 255 bytes returns
\* InvalidInput and no content; the limit counts bytes, so a string of at
\* most 255 characters whose encoding exceeds 255 bytes is rejected too.
C2_NewRejectsOver255Bytes ==
    (pc = "new" /\ ByteLen(arg) > MaxNameBytes)
        => (~out.ok /\ out.kind = "InvalidInput" /\ "val" \notin DOMAIN out)

C2_Witness ==
    /\ pc = "new"
    /\ CharCount(arg) <= MaxNameBytes
    /\ ByteLen(arg) > MaxNameBytes
    /\ ~out.ok

\* C3: NameEventContent::new("") returns Ok with the name None: neither the
\* "more than 255 bytes" error nor Some("").
C3_NewFoldsEmpty ==
    (pc = "new" /\ arg = EmptyString)
        => (out.ok /\ NameOf(out.val) = None)

C3_Witness ==
    /\ pc = "new"
    /\ arg = EmptyString
    /\ out = Ok(NameEventContent(None))

\* C4: a bare content, or an otherwise acceptable event, whose content has
\* the name key absent, null or "" decodes, and deserialize() succeeds with a
\* content whose name is None, the same in the three cases.
C4_AbsentNullEmptyAreNone ==
    /\ (OfContent /\ NameFolds(json))
        => /\ holder.ok
           /\ Deserialized => out = Ok(NameEventContent(None))
    /\ (OfEvent /\ EventShape(json) /\ PrevAccepted(json)
            /\ NameFolds(json.o["content"]))
        => /\ holder.ok
           /\ Deserialized => (out.ok /\ out.val.content = NameEventContent(None))

C4_Witness ==
    /\ pc = "deserialized_event"
    /\ EventShape(json)
    /\ json.o["content"] = JObj("name" :> JNull)
    /\ out.ok
    /\ out.val.content.name = None

\* C5: NameEventContent::try_from_raw of a raw content with name Some(s)
\* returns what NameEventContent::new(s) returns; with name None it returns
\* Ok with name None, which is what new("") returns.
C5_RoutesAgree ==
    pc = "content_try_from_raw"
        => IF arg.name.some
           THEN out = New(arg.name.val)
           ELSE out = Ok(NameEventContent(None)) /\ out = New(EmptyString)

C5_Witness ==
    /\ pc = "content_try_from_raw"
    /\ arg.name = Some(EmptyString)
    /\ out = Ok(NameEventContent(None))

\* C6: every content that new, the content's try_from_raw or the event's
\* try_from_raw (content and prev_content) returns holds no name or a name
\* of 1 to 255 bytes.
C6_NameInvariant ==
    /\ (pc \in {"new", "content_try_from_raw"} /\ out.ok) => ValidContent(out.val)
    /\ (pc = "event_try_from_raw" /\ out.ok)
        => /\ ValidContent(out.val.content)
           /\ out.val.prev_content.some => ValidContent(out.val.prev_content.val)
    /\ (Deserialized /\ out.ok)
        => IF OfContent THEN ValidContent(out.val)
           ELSE /\ ValidContent(out.val.content)
                /\ out.val.prev_content.some => ValidContent(out.val.prev_content.val)

C6_Witness ==
    /\ pc = "event_try_from_raw"
    /\ arg.prev_content.some
    /\ arg.prev_content.val.name.some
    /\ out.ok
    /\ out.val.prev_content.val.name.some
    /\ ByteLen(out.val.prev_content.val.name.val) = MaxNameBytes
    /\ ~out.val.content.name.some

\* C7: the serialized NameEvent has the key unsigned exactly when the
\* unsigned data is not empty, prev_content exactly when prev_content is
\* Some, room_id exactly when room_id is Some; none of them is written as
\* null or as an empty object.
C7_OptionalKeysOmitted ==
    pc = "serialized"
        => /\ HasKey(json, "unsigned") <=> ~UnsignedIsEmpty(event.unsigned)
           /\ HasKey(json, "prev_content") <=> event.prev_content.some
           /\ HasKey(json, "room_id") <=> event.room_id.some
           /\ \A k \in {"unsigned", "prev_content", "room_id"} :
                HasKey(json, k) => json.o[k] \notin {JNull, JObj(NoKeys)}

C7_Witness ==
    /\ pc = "serialized"
    /\ UnsignedIsEmpty(event.unsigned)
    /\ ~event.prev_content.some
    /\ ~event.room_id.some
    /\ DOMAIN json.o = RequiredKeys \cup {"type"}

\* C8 as stated: every NameEvent whose contents satisfy the name invariant
\* serializes to JSON that decodes and validates to an equal NameEvent.
C8_RoundTripEveryEvent ==
    (Decoding /\ event # Nil)
        => /\ holder.ok
           /\ Deserialized => out = Ok(event)

WholeMillis(t) == t % NanosPerMilli = 0

\* C8 amended: the round trip holds for every such NameEvent whose
\* origin_server_ts is a whole number of milliseconds after the epoch.
C8_RoundTripWholeMillis ==
    (Decoding /\ event # Nil /\ WholeMillis(event.origin_server_ts))
        => /\ holder.ok
           /\ Deserialized => out = Ok(event)

C8_Witness ==
    /\ pc = "deserialized_event"
    /\ event # Nil
    /\ WholeMillis(event.origin_server_ts)
    /\ event.origin_server_ts > 0
    /\ event.content.name.some
    /\ event.prev_content.some
    /\ event.room_id.some
    /\ ~UnsignedIsEmpty(event.unsigned)
    /\ out = Ok(event)

\* C9: the structural decode succeeds on JSON of the required shape even
\* when a name is longer than 255 bytes, and never reports a validation
\* error; the InvalidInput comes from the later deserialize().
C9_ValidationDeferred ==
    /\ (Decoding /\ ~holder.ok) => holder.kind = "Structural"
    /\ (OfContent /\ NameTooLong(json))
        => /\ holder.ok
           /\ EventJsonGetRaw(holder.val) = json
           /\ Deserialized => out = InvalidInput(TooLong)
    /\ (OfEvent /\ EventShape(json) /\ NameTooLong(json.o["content"]))
        => /\ holder.ok
           /\ EventJsonGetRaw(holder.val) = json
           /\ Deserialized => out = InvalidInput(TooLong)

C9_Witness ==
    /\ pc = "deserialized_content"
    /\ NameTooLong(json)
    /\ ByteLen(json.o["name"].s) = MaxNameBytes + 1
    /\ holder.ok
    /\ ~out.ok

RawTooLong(raw) == raw.name.some /\ ByteLen(raw.name.val) > MaxNameBytes

\* C10: NameEvent::try_from_raw returns InvalidInput, and no event, when the
\* name of the content or of the prev_content exceeds 255 bytes; otherwise it
\* succeeds and copies event_id, origin_server_ts, room_id, sender, state_key
\* and unsigned from the raw event.
C10_EventConversion ==
    pc = "event_try_from_raw"
        => IF \/ RawTooLong(arg.content)
              \/ (arg.prev_content.some /\ RawTooLong(arg.prev_content.val))
           THEN out = InvalidInput(TooLong)
           ELSE /\ out.ok
                /\ out.val.event_id = arg.event_id
                /\ out.val.origin_server_ts = arg.origin_server_ts
                /\ out.val.room_id = arg.room_id
                /\ out.val.sender = arg.sender
                /\ out.val.state_key = arg.state_key
                /\ out.val.unsigned = arg.unsigned

C10_Witness ==
    /\ pc = "event_try_from_raw"
    /\ arg.content.name.some
    /\ ~RawTooLong(arg.content)
    /\ arg.prev_content.some
    /\ RawTooLong(arg.prev_content.val)
    /\ out = InvalidInput(TooLong)

====
